---- MODULE Spec2Model ----
(***************************************************************************)
(* fileChunker (main.go): one run of Chunker.Process.  A run splits one    *)
(* input file into numbered chunk files by lines, by characters (with a    *)
(* word-boundary look-back) or by tokens, with an optional overlap.        *)
(*                                                                         *)
(* Offsets (start, end, i) are Go's 0-based offsets; At and Slice convert   *)
(* to TLA+'s 1-based sequences.  A text is a sequence of one-character      *)
(* strings and a token is a sequence of characters.  The line chunker only  *)
(* appends and slices lines and never looks inside one, so the i-th line of *)
(* the input is identified with its number i (all lines distinct), and a    *)
(* line input is given by its number of lines.                              *)
(***************************************************************************)
EXTENDS Integers, Sequences, FiniteSets, TLC

\* ---------------------------------------------------------------- bounds
MaxLen == 4          \* longest enumerated text (characters)
MaxLines == 7        \* longest enumerated line input (lines)
MaxChunkSize == 3    \* enumerated -size values are 1..MaxChunkSize
MaxOverlap == 3      \* enumerated -overlap values are 0..MaxOverlap
MaxChunks == 5       \* chars/tokens loops stop being followed after this many files
MaxFaults == 1       \* I/O faults the environment injects in one run

\* the look-back window of the word-boundary search (main.go:101)
LookBack == 100

Alphabet == {"a", " ", "."}

Min(a, b) == IF a < b THEN a ELSE b
Max(a, b) == IF a > b THEN a ELSE b

SeqsUpTo(S, n) == UNION {[1..k -> S] : k \in 0..n}

\* text[i] and text[s:e] of Go, on 0-based offsets
At(text, i) == text[i + 1]
Slice(text, s, e) == SubSeq(text, s + 1, e)

Repeat(c, n) == [i \in 1..n |-> c]

\* ---------------------------------------------------------------- inputs
ChunkTypes == {"lines", "chars", "tokens"}

ChunkConfig ==
    [ChunkType : ChunkTypes, ChunkSize : 1..MaxChunkSize,
     OverlapSize : 0..MaxOverlap, AddMetadata : BOOLEAN]

\* 2500 lines, -size 1000 -overlap 50 (the defaults of main.go:278-279)
LinesScenarioConfig ==
    [ChunkType |-> "lines", ChunkSize |-> 1000, OverlapSize |-> 50, AddMetadata |-> TRUE]
LinesScenario == <<LinesScenarioConfig, <<>>, 2500>>

\* "a b c d e", -type chars -size 5 -overlap 0
CharsScenarioConfig ==
    [ChunkType |-> "chars", ChunkSize |-> 5, OverlapSize |-> 0, AddMetadata |-> TRUE]
CharsScenarioSource == <<"a", " ", "b", " ", "c", " ", "d", " ", "e">>
CharsScenario == <<CharsScenarioConfig, CharsScenarioSource, 0>>

\* "aaa", a space, a word of exactly LookBack characters, a space, "a":
\* chunk sizes around the word's end make the look-back window bind
LongSource == <<"a", "a", "a", " ">> \o Repeat("a", LookBack) \o <<" ", "a">>
LongConfigs ==
    {[ChunkType |-> "chars", ChunkSize |-> LookBack + d, OverlapSize |-> 0,
      AddMetadata |-> TRUE] : d \in {3, 4, 5}}

\* a run: the configuration, the input's text (chars, tokens) and the
\* input's number of lines (lines)
Runs ==
    {<<c, <<>>, n>> : c \in {x \in ChunkConfig : x.ChunkType = "lines"}, n \in 0..MaxLines}
    \cup {<<c, s, 0>> : c \in {x \in ChunkConfig : x.ChunkType # "lines"},
                        s \in SeqsUpTo(Alphabet, MaxLen)}
    \cup {LinesScenario, CharsScenario}
    \cup {<<c, LongSource, 0>> : c \in LongConfigs}

VARIABLES
    config,           \* Chunker.config
    source,           \* the content of config.InputFile (chars, tokens)
    lineCount,        \* the number of lines of config.InputFile (lines)
    pc,               \* "Process", "Lines", "Chars", "Tokens", "Done", "Failed"
    err,              \* the error Process returns: "none", "setup", "read", "write"
    currentChunk,     \* ChunkByLines: currentChunk
    previousOverlap,  \* ChunkByLines: previousOverlap
    chunkNumber,      \* chunkNumber of the running strategy
    lineNumber,       \* ChunkByLines: lineNumber
    tokens,           \* ChunkByTokens: tokens
    start,            \* ChunkByCharacters / ChunkByTokens: start
    files,            \* the chunk files created so far, in creation order
    faults            \* I/O faults the environment may still inject

vars == <<config, source, lineCount, pc, err, currentChunk, previousOverlap, chunkNumber,
          lineNumber, tokens, start, files, faults>>

\* ------------------------------------------------------------ chunk writer
\* what the environment does to one writeChunk / writeTextChunk call:
\* "ok", os.Create fails, or a later Fprint* to the created file fails
Outcomes(budget) == IF budget > 0 THEN {"ok", "createFail", "writeFail"} ELSE {"ok"}
Cost(outcome) == IF outcome = "ok" THEN 0 ELSE 1

\* the error writeChunk / writeTextChunk return: only os.Create's error is
\* looked at; the results of Fprintf, Fprintln and Fprint are discarded
WriteErr(outcome) == IF outcome = "createFail" THEN "write" ELSE "none"

\* the file the call leaves behind: content is the payload handed to the
\* writer, intact says whether every write of header and content succeeded
ChunkFile(content, number, from, to, outcome) ==
    [number |-> number, content |-> content, start |-> from, end |-> to,
     header |-> config.AddMetadata, intact |-> (outcome = "ok")]

writeChunk(fs, content, number, from, to, outcome) ==
    IF outcome = "createFail" THEN fs
    ELSE Append(fs, ChunkFile(content, number, from, to, outcome))

writeTextChunk(fs, content, number, from, to, outcome) ==
    IF outcome = "createFail" THEN fs
    ELSE Append(fs, ChunkFile(content, number, from, to, outcome))

\* ------------------------------------------------------------ line chunker
\* scanner.Text() after the i-th successful scanner.Scan()
Line(i) == i

\* faulty variant: flushes one line late
ChunkFullStrict(chunk, size) == Len(chunk) > size

ChunkFull(chunk, size) == Len(chunk) >= size

\* faulty variant: carries the first lines of the chunk over, not the last
PrepareOverlapHead(chunk, overlap) ==
    IF overlap > 0 /\ Len(chunk) > overlap
    THEN SubSeq(chunk, 1, overlap)
    ELSE <<>>

PrepareOverlap(chunk, overlap) ==
    IF overlap > 0 /\ Len(chunk) > overlap
    THEN SubSeq(chunk, Len(chunk) - overlap + 1, Len(chunk))
    ELSE <<>>

SeedChunk(chunk, overlapLines) ==
    IF Len(chunk) = 0 /\ Len(overlapLines) > 0 THEN overlapLines ELSE chunk

\* faulty variant: a single remaining line is not written
RemainderPendingOffByOne(chunk) == Len(chunk) > 1

RemainderPending(chunk) == Len(chunk) > 0

\* --------------------------------------------------- character chunker
IsSpace(ch) == ch \in {" ", "\n", "\t"}

TentativeEnd(from, size, length) == Min(from + size, length)

RECURSIVE ScanBack(_, _, _, _)
ScanBack(text, from, end, i) ==
    IF i > from /\ i > end - LookBack
    THEN IF IsSpace(At(text, i)) THEN i ELSE ScanBack(text, from, end, i - 1)
    ELSE end

\* faulty variant: no backward search
WordBoundaryNoSnap(text, from, end) == end

WordBoundary(text, from, end) ==
    IF end < Len(text) THEN ScanBack(text, from, end, end) ELSE end

\* faulty variant: with overlap 0 the character at end is skipped
NextStartSkipSpace(end, overlap) ==
    IF overlap > 0
    THEN IF end - overlap < 0 THEN end ELSE end - overlap
    ELSE end + 1

NextStart(end, overlap) ==
    IF overlap > 0
    THEN IF end - overlap < 0 THEN end ELSE end - overlap
    ELSE end

\* ------------------------------------------------------------ tokenizer
IsPunct(ch) == ch \in {".", ",", ";", ":", "!", "?", "(", ")", "[", "]", "{", "}"}

Flush(toks, current) == IF Len(current) > 0 THEN Append(toks, current) ELSE toks

RECURSIVE TokenizeFrom(_, _, _, _)
TokenizeFrom(text, i, toks, current) ==
    IF i > Len(text) THEN Flush(toks, current)
    ELSE LET ch == text[i] IN
         IF IsSpace(ch) THEN TokenizeFrom(text, i + 1, Flush(toks, current), <<>>)
         ELSE IF IsPunct(ch)
              THEN TokenizeFrom(text, i + 1, Append(Flush(toks, current), <<ch>>), <<>>)
              ELSE TokenizeFrom(text, i + 1, toks, Append(current, ch))

tokenize(text) == TokenizeFrom(text, 1, <<>>, <<>>)

\* faulty variant: the separator is left out
RECURSIVE JoinNoSep(_, _)
JoinNoSep(elems, sep) ==
    IF Len(elems) = 0 THEN <<>> ELSE elems[1] \o JoinNoSep(Tail(elems), sep)

\* strings.Join
RECURSIVE Join(_, _)
Join(elems, sep) ==
    IF Len(elems) = 0 THEN <<>>
    ELSE IF Len(elems) = 1 THEN elems[1]
    ELSE elems[1] \o sep \o Join(Tail(elems), sep)

\* ------------------------------------------------------------------ Init
Init ==
    /\ \E r \in Runs : config = r[1] /\ source = r[2] /\ lineCount = r[3]
    /\ pc = "Process"
    /\ err = "none"
    /\ currentChunk = <<>>
    /\ previousOverlap = <<>>
    /\ chunkNumber = 1
    /\ lineNumber = 0
    /\ tokens = <<>>
    /\ start = 0
    /\ files = <<>>
    /\ faults = MaxFaults

\* --------------------------------------------------------------- actions
Fail(kind) == pc' = "Failed" /\ err' = kind

\* Process: MkdirAll, then the strategy's opening: os.Open (lines) or
\* os.ReadFile (chars, tokens; tokens also tokenizes)
Process ==
    /\ pc = "Process"
    /\ pc' = (CASE config.ChunkType = "lines" -> "Lines"
               [] config.ChunkType = "chars" -> "Chars"
               [] OTHER -> "Tokens")
    /\ tokens' = IF config.ChunkType = "tokens" THEN tokenize(source) ELSE tokens
    /\ UNCHANGED <<config, source, lineCount, err, currentChunk, previousOverlap, chunkNumber,
                   lineNumber, start, files, faults>>

\* Process: MkdirAll fails, or the input cannot be opened / read
ProcessFail ==
    /\ pc = "Process"
    /\ faults > 0
    /\ \E kind \in {"setup", "read"} : Fail(kind)
    /\ faults' = faults - 1
    /\ UNCHANGED <<config, source, lineCount, currentChunk, previousOverlap, chunkNumber,
                   lineNumber, tokens, start, files>>

\* ChunkByLines: one iteration of the scan loop (scanner.Scan() = true)
ChunkByLinesScan ==
    /\ pc = "Lines"
    /\ lineNumber < lineCount
    /\ LET ln == lineNumber + 1
           chunk == Append(SeedChunk(currentChunk, previousOverlap), Line(ln))
       IN /\ lineNumber' = ln
          /\ IF ChunkFull(chunk, config.ChunkSize)
             THEN \E o \in Outcomes(faults) :
                    /\ faults' = faults - Cost(o)
                    /\ files' = writeChunk(files, chunk, chunkNumber,
                                           ln - Len(chunk) + 1, ln, o)
                    /\ IF WriteErr(o) # "none"
                       THEN /\ Fail(WriteErr(o))
                            /\ currentChunk' = chunk
                            /\ UNCHANGED <<previousOverlap, chunkNumber>>
                       ELSE /\ previousOverlap' = PrepareOverlap(chunk, config.OverlapSize)
                            /\ currentChunk' = <<>>
                            /\ chunkNumber' = chunkNumber + 1
                            /\ UNCHANGED <<pc, err>>
             ELSE /\ currentChunk' = chunk
                  /\ UNCHANGED <<pc, err, previousOverlap, chunkNumber, files, faults>>
    /\ UNCHANGED <<config, source, lineCount, tokens, start>>

\* ChunkByLines: scanner.Scan() = false, at end of input or on a scan error;
\* the remaining lines are written, then scanner.Err() is returned
ChunkByLinesEnd ==
    /\ pc = "Lines"
    /\ \E scanErr \in BOOLEAN :
         /\ scanErr => faults > 0 /\ lineNumber < lineCount
         /\ ~scanErr => lineNumber = lineCount
         /\ LET left == faults - (IF scanErr THEN 1 ELSE 0) IN
            IF RemainderPending(currentChunk)
            THEN \E o \in Outcomes(left) :
                   /\ faults' = left - Cost(o)
                   /\ files' = writeChunk(files, currentChunk, chunkNumber,
                                          lineNumber - Len(currentChunk) + 1, lineNumber, o)
                   /\ IF WriteErr(o) # "none" THEN Fail(WriteErr(o))
                      ELSE IF scanErr THEN Fail("read")
                      ELSE pc' = "Done" /\ err' = "none"
            ELSE /\ faults' = left
                 /\ files' = files
                 /\ IF scanErr THEN Fail("read") ELSE pc' = "Done" /\ err' = "none"
    /\ UNCHANGED <<config, source, lineCount, currentChunk, previousOverlap, chunkNumber,
                   lineNumber, tokens, start>>

\* ChunkByCharacters: one iteration of the loop
ChunkByCharactersStep ==
    /\ pc = "Chars"
    /\ start < Len(source)
    /\ Len(files) < MaxChunks
    /\ LET end == WordBoundary(source, start,
                               TentativeEnd(start, config.ChunkSize, Len(source)))
       IN \E o \in Outcomes(faults) :
            /\ faults' = faults - Cost(o)
            /\ files' = writeTextChunk(files, Slice(source, start, end), chunkNumber, start, end, o)
            /\ IF WriteErr(o) # "none"
               THEN Fail(WriteErr(o)) /\ UNCHANGED <<start, chunkNumber>>
               ELSE /\ start' = NextStart(end, config.OverlapSize)
                    /\ chunkNumber' = chunkNumber + 1
                    /\ UNCHANGED <<pc, err>>
    /\ UNCHANGED <<config, source, lineCount, currentChunk, previousOverlap, lineNumber, tokens>>

\* ChunkByCharacters: the loop condition fails, return nil
ChunkByCharactersExit ==
    /\ pc = "Chars"
    /\ ~(start < Len(source))
    /\ pc' = "Done"
    /\ UNCHANGED <<config, source, lineCount, err, currentChunk, previousOverlap, chunkNumber,
                   lineNumber, tokens, start, files, faults>>

\* ChunkByTokens: one iteration of the loop
ChunkByTokensStep ==
    /\ pc = "Tokens"
    /\ start < Len(tokens)
    /\ Len(files) < MaxChunks
    /\ LET end == TentativeEnd(start, config.ChunkSize, Len(tokens))
           chunk == Join(Slice(tokens, start, end), <<" ">>)
       IN \E o \in Outcomes(faults) :
            /\ faults' = faults - Cost(o)
            /\ files' = writeTextChunk(files, chunk, chunkNumber, start, end, o)
            /\ IF WriteErr(o) # "none"
               THEN Fail(WriteErr(o)) /\ UNCHANGED <<start, chunkNumber>>
               ELSE /\ start' = NextStart(end, config.OverlapSize)
                    /\ chunkNumber' = chunkNumber + 1
                    /\ UNCHANGED <<pc, err>>
    /\ UNCHANGED <<config, source, lineCount, currentChunk, previousOverlap, lineNumber, tokens>>

\* ChunkByTokens: the loop condition fails, return nil
ChunkByTokensExit ==
    /\ pc = "Tokens"
    /\ ~(start < Len(tokens))
    /\ pc' = "Done"
    /\ UNCHANGED <<config, source, lineCount, err, currentChunk, previousOverlap, chunkNumber,
                   lineNumber, tokens, start, files, faults>>

Next ==
    \/ Process
    \/ ProcessFail
    \/ ChunkByLinesScan
    \/ ChunkByLinesEnd
    \/ ChunkByCharactersStep
    \/ ChunkByCharactersExit
    \/ ChunkByTokensStep
    \/ ChunkByTokensExit

Spec == Init /\ [][Next]_vars

\* ------------------------------------------------------------ properties
IsLines == config.ChunkType = "lines"
IsChars == config.ChunkType = "chars"
IsTokens == config.ChunkType = "tokens"

NoFault == faults = MaxFaults
AllIntact == \A i \in 1..Len(files) : files[i].intact

\* the size of the input in the strategy's unit: lines, bytes or tokens
InputSize ==
    IF IsTokens THEN Len(tokenize(source))
    ELSE IF IsLines THEN lineCount ELSE Len(source)

\* the whole input as the strategy's payload: lines, text, or joined tokens
WholeInput ==
    IF IsTokens THEN Join(tokenize(source), <<" ">>)
    ELSE IF IsLines THEN [i \in 1..lineCount |-> Line(i)] ELSE source

LastFile == files[Len(files)]

RECURSIVE ConcatContents(_)
ConcatContents(fs) ==
    IF Len(fs) = 0 THEN <<>> ELSE fs[1].content \o ConcatContents(Tail(fs))

Contents(fs) == [i \in 1..Len(fs) |-> fs[i].content]

FirstK(s, k) == SubSeq(s, 1, k)
LastK(s, k) == SubSeq(s, Len(s) - k + 1, Len(s))
LineRange(a, b) == [i \in 1..(b - a + 1) |-> Line(a + i - 1)]

\* C1 (as claimed): with chunkSize > 0 and 0 <= overlap < chunkSize the chars
\* and tokens loops stop; once a chunk that reaches the end of the input has
\* been written, no further chunk is written.
C1_NoChunkAfterEnd ==
    [][(/\ pc \in {"Chars", "Tokens"}
        /\ config.OverlapSize < config.ChunkSize
        /\ Len(files) > 0
        /\ LastFile.end = InputSize)
       => files' = files]_vars

\* C2 (as claimed): when the chunk size exceeds the size of the non-empty
\* input, at most one chunk is ever written, and a completed run has written
\* exactly one chunk, which holds the whole input.
C2_SingleChunk ==
    (config.ChunkSize > InputSize /\ InputSize > 0 /\ NoFault)
    => /\ Len(files) <= 1
       /\ pc = "Done" =>
            /\ Len(files) = 1
            /\ files[1].content = WholeInput

AdjacentShare(k) ==
    \A i \in 1..(Len(files) - 1) :
        /\ Len(files[i].content) >= k
        /\ Len(files[i + 1].content) >= k
        /\ LastK(files[i].content, k) = FirstK(files[i + 1].content, k)

\* C3 (as claimed): lines mode, overlap k > 0: the last k lines of every chunk
\* that has a successor are the first k lines of that successor.
C3_Original == (IsLines /\ config.OverlapSize > 0) => AdjacentShare(config.OverlapSize)

\* C3 (amended): the same, for 0 < k < chunkSize.
C3_OverlapShared ==
    (IsLines /\ config.OverlapSize > 0 /\ config.OverlapSize < config.ChunkSize)
    => AdjacentShare(config.OverlapSize)

C3_Witness ==
    /\ IsLines /\ pc = "Done"
    /\ config.OverlapSize > 1 /\ config.OverlapSize < config.ChunkSize
    /\ Len(files) >= 3
    /\ files[1].content # files[2].content

InLinesScenario == <<config, source, lineCount>> = LinesScenario

\* the lines a chunk adds to those of its predecessor (reported line ranges)
NewLines(i) == files[i].end - files[i - 1].end

\* C4 (as claimed): 2500 lines, size 1000, overlap 50: three chunks, chunk 1 is
\* lines 1-1000, chunk 2 starts with lines 951-1000 and holds 1050 lines (50
\* overlap + 1000 new); a non-first, non-final chunk holds the overlap lines
\* followed by chunkSize new lines.
C4_Original ==
    /\ (InLinesScenario /\ pc = "Done" /\ AllIntact) =>
          /\ Len(files) = 3
          /\ files[1].content = LineRange(1, 1000)
          /\ FirstK(files[2].content, 50) = LineRange(951, 1000)
          /\ Len(files[2].content) = 1050
    /\ (IsLines /\ config.OverlapSize < config.ChunkSize) =>
          \A i \in 2..(Len(files) - 1) :
              /\ Len(files[i].content) = config.OverlapSize + config.ChunkSize
              /\ NewLines(i) = config.ChunkSize

\* C4 (amended): three chunks, chunk 1 is lines 1-1000, chunk 2 is lines
\* 951-1950 (1000 lines: 50 overlap + 950 new), chunk 3 is lines 1901-2500; a
\* non-first, non-final chunk holds chunkSize lines in all: the overlap lines
\* followed by chunkSize - overlap new lines.
C4_ChunkSizeIsTotal ==
    /\ (InLinesScenario /\ pc = "Done" /\ AllIntact) =>
          /\ Len(files) = 3
          /\ files[1].content = LineRange(1, 1000)
          /\ files[2].content = LineRange(951, 1950)
          /\ files[3].content = LineRange(1901, 2500)
          /\ <<files[2].start, files[2].end>> = <<951, 1950>>
    /\ (IsLines /\ config.OverlapSize < config.ChunkSize) =>
          \A i \in 2..(Len(files) - 1) :
              /\ Len(files[i].content) = config.ChunkSize
              /\ FirstK(files[i].content, config.OverlapSize)
                   = LastK(files[i - 1].content, config.OverlapSize)
              /\ NewLines(i) = config.ChunkSize - config.OverlapSize

C4_Witness ==
    InLinesScenario /\ pc = "Done" /\ AllIntact /\ Len(files) = 3

\* offset b lies between two non-whitespace characters of text
InsideRun(text, b) ==
    /\ b > 0 /\ b < Len(text)
    /\ ~IsSpace(At(text, b - 1))
    /\ ~IsSpace(At(text, b))

RECURSIVE RunStart(_, _)
RunStart(text, p) ==
    IF p > 0 /\ ~IsSpace(At(text, p - 1)) THEN RunStart(text, p - 1) ELSE p

RECURSIVE RunEnd(_, _)
RunEnd(text, p) ==
    IF p + 1 < Len(text) /\ ~IsSpace(At(text, p + 1)) THEN RunEnd(text, p + 1) ELSE p

\* the length of the run of non-whitespace characters around offset b
RunLen(text, b) == RunEnd(text, b) - RunStart(text, b) + 1

Window(from) ==
    LET te == TentativeEnd(from, config.ChunkSize, Len(source))
    IN (Max(from, te - LookBack) + 1)..te

InCharsScenario == <<config, source, lineCount>> = CharsScenario

\* C6 (as claimed): "a b c d e", size 5, overlap 0: two chunks, "a b c" and
\* "d e"; the whitespace a chunk is cut at appears in neither chunk.
C6_Original ==
    (InCharsScenario /\ pc = "Done" /\ AllIntact) =>
        Contents(files) = << <<"a", " ", "b", " ", "c">>, <<"d", " ", "e">> >>

\* C6 (amended): two chunks, "a b c" and " d e": the whitespace a chunk is
\* cut at is the first character of the next chunk, and with overlap 0 the
\* chunks of a completed run concatenate to the input.
C6_SpaceStartsNextChunk ==
    /\ (InCharsScenario /\ pc = "Done" /\ AllIntact) =>
          Contents(files) = << <<"a", " ", "b", " ", "c">>, <<" ", "d", " ", "e">> >>
    /\ (IsChars /\ config.OverlapSize = 0) =>
          /\ \A i \in 1..(Len(files) - 1) :
                IsSpace(At(source, files[i].end)) =>
                    files[i + 1].content[1] = At(source, files[i].end)
          /\ pc = "Done" => ConcatContents(files) = source

C6_Witness ==
    InCharsScenario /\ pc = "Done" /\ AllIntact /\ Len(files) = 2

\* C7: lines mode, overlap 0: the chunks written so far, followed by the lines
\* still buffered, are exactly the lines read so far, and the chunks of a
\* completed run concatenate to the input's line sequence.
C7_LinesPartition ==
    (IsLines /\ config.OverlapSize = 0) =>
        /\ pc = "Lines" =>
             ConcatContents(files) \o currentChunk = LineRange(1, lineNumber)
        /\ pc = "Done" => ConcatContents(files) = WholeInput

C7_Witness ==
    /\ IsLines /\ config.OverlapSize = 0 /\ pc = "Done" /\ AllIntact
    /\ Len(files) >= 2
    /\ Len(LastFile.content) < config.ChunkSize

\* C8: tokens mode: tokenizing the space-joined token sequence gives the
\* token sequence back; with overlap 0 the chunks' token ranges are contiguous
\* from 0, and in a completed run they cover every token and the space-joined
\* chunk contents tokenize to the tokens of the whole source.
C8_TokensReassemble ==
    (IsTokens /\ (pc \in {"Tokens", "Done"} \/ err = "write")) =>
        /\ tokens = tokenize(source)
        /\ tokenize(Join(tokens, <<" ">>)) = tokens
        /\ config.OverlapSize = 0 =>
             /\ \A i \in 1..Len(files) :
                   /\ files[i].start = (IF i = 1 THEN 0 ELSE files[i - 1].end)
                   /\ files[i].end > files[i].start
                   /\ files[i].content =
                        Join(Slice(tokens, files[i].start, files[i].end), <<" ">>)
             /\ pc = "Done" =>
                   /\ (Len(files) > 0 => LastFile.end = Len(tokens))
                   /\ (Len(files) = 0 => Len(tokens) = 0)
                   /\ tokenize(Join(Contents(files), <<" ">>)) = tokenize(source)

C8_Witness ==
    /\ IsTokens /\ config.OverlapSize = 0 /\ pc = "Done" /\ AllIntact
    /\ Len(files) >= 2
    /\ \E i \in 1..Len(tokens) : tokens[i] = <<".">>
    /\ \E i \in 1..Len(tokens) : Len(tokens[i]) > 1
    /\ \E i \in 1..Len(source) : source[i] = " "

\* C9 (as claimed): lines mode: the step that hits a scan error creates and
\* writes no chunk file.
C9_NoChunkAfterScanError ==
    [][(pc = "Lines" /\ err' = "read") => files' = files]_vars

\* C10 (as claimed): a chunk file whose header or content could not be
\* written makes the run fail with a write error; it never goes on or
\* reports success.
C10_WriteFailureAborts ==
    (\E i \in 1..Len(files) : ~files[i].intact) => (pc = "Failed" /\ err = "write")

====
